---- MODULE Spec2Model ----
(***************************************************************************)
(* Model of birapi/go-corpbankclient: the bearer token (Sign, Verify,      *)
(* Pack, Unpack) of bearer_token.go and the webhook handler of webhook.go. *)
(*                                                                         *)
(* Representation                                                          *)
(*   byte string     sequence of 0..255                                    *)
(*   text            sequence of one-character strings                     *)
(*   time.Time       [sec, frac, off]: seconds since the epoch, the        *)
(*                   sub-second part in ticks (TicksPerSec ticks make a    *)
(*                   second; Go has 10^9), the zone's offset in seconds    *)
(*   RFC3339 text    [ok, wall, frac, utc, min]: wall-clock seconds, a     *)
(*                   fractional part, and the zone, "Z" or +hh:mm          *)
(*   packed string   [b64, json, extra, apiKeyID, timestamp, algo,         *)
(*                   signature]: whether it is base64 of JSON, the four    *)
(*                   values of the envelope, and characters beyond them    *)
(*   request body    [doc, pad]: a document followed by pad blanks         *)
(*   HMAC-SHA256     a deterministic keyed digest of sha256Size bytes; no  *)
(*                   property below relies on collision resistance         *)
(***************************************************************************)
EXTENDS Integers, Sequences, FiniteSets, TLC

\* ------------------------------------------------------------------ bounds
\* ticks per second of the modelled clock
TicksPerSec == 2
\* the clock runs from 0 to MaxClockSec seconds
MaxClockSec == 4
\* length of the over-long signature used to exceed maxPackedLen
LongSigLen == 324

\* ------------------------------------------------------- program constants
maxPackedLen == 1024
maxReadBytes == 10 * 1024 * 1024
sha256Size == 32
StatusOK == 200
StatusAccepted == 202
StatusBadRequest == 400
StatusUnauthorized == 401
StatusForbidden == 403
StatusInternalServerError == 500

\* ------------------------------------------------------------ arithmetic
\* Go's integer division truncates toward zero
GoDiv(a, b) == IF a >= 0 THEN a \div b ELSE -((-a) \div b)

\* ------------------------------------------------------------------ time
\* the instant of a time.Time in ticks; the zone plays no part
Instant(t) == t.sec * TicksPerSec + t.frac

\* Time.UTC(): the same instant in the UTC location
UTC(t) == [t EXCEPT !.off = 0]

\* Time.Format(time.RFC3339): the wall clock of the zone to the second, then
\* "Z" for a zero offset and otherwise the offset in whole minutes
FormatRFC3339(t) ==
    [ok |-> TRUE, wall |-> t.sec + t.off, frac |-> 0,
     utc |-> (t.off = 0), min |-> GoDiv(t.off, 60)]

\* time.Parse(time.RFC3339, s): the instant is the wall clock minus the
\* written offset; a fractional second in the text is accepted and kept
ParseRFC3339(s) ==
    IF ~s.ok THEN [err |-> TRUE, time |-> [sec |-> 0, frac |-> 0, off |-> 0]]
    ELSE [err |-> FALSE,
          time |-> [sec |-> s.wall - (IF s.utc THEN 0 ELSE s.min * 60),
                    frac |-> s.frac,
                    off |-> IF s.utc THEN 0 ELSE s.min * 60]]

\* number of characters of an RFC3339 text
RFC3339Len(s) ==
    IF ~s.ok THEN 3
    ELSE 19 + (IF s.frac = 0 THEN 0 ELSE 2) + (IF s.utc THEN 1 ELSE 6)

\* ------------------------------------------------------------------- hex
HexDigits == <<"0", "1", "2", "3", "4", "5", "6", "7",
               "8", "9", "a", "b", "c", "d", "e", "f">>
UpperHex == <<"A", "B", "C", "D", "E", "F">>

\* value of a hex digit, -1 for any other character
HexVal(c) ==
    IF \E i \in 1..16 : HexDigits[i] = c
    THEN (CHOOSE i \in 1..16 : HexDigits[i] = c) - 1
    ELSE IF \E i \in 1..6 : UpperHex[i] = c
    THEN (CHOOSE i \in 1..6 : UpperHex[i] = c) + 9
    ELSE -1

\* hex.EncodeToString: two lowercase digits per byte
HexEncode(b) ==
    [i \in 1..(2 * Len(b)) |->
        IF i % 2 = 1 THEN HexDigits[(b[(i + 1) \div 2] \div 16) + 1]
        ELSE HexDigits[(b[i \div 2] % 16) + 1]]

\* hex.DecodeString: fails on an odd length or a character that is no digit
HexDecode(s) ==
    IF Len(s) % 2 = 1 \/ \E i \in 1..Len(s) : HexVal(s[i]) < 0
    THEN [err |-> TRUE, bytes |-> <<>>]
    ELSE [err |-> FALSE,
          bytes |-> [i \in 1..(Len(s) \div 2) |->
                        16 * HexVal(s[2 * i - 1]) + HexVal(s[2 * i])]]

\* ------------------------------------------------------------------ uuid
\* the 128-bit values of the model
UUIDs == {"k1", "k2"}

\* UUID.String(): the canonical 36-character form
UUIDString(u) == [form |-> "canonical", id |-> u]

\* uuid.Parse accepts the canonical form, the urn:uuid: form, the braced
\* form and the 32-digit form
UUIDParse(s) ==
    IF s.form \in {"canonical", "urn", "braced", "compact"}
    THEN [err |-> FALSE, id |-> s.id]
    ELSE [err |-> TRUE, id |-> "k1"]

UUIDTextLen(s) ==
    CASE s.form = "canonical" -> 36
      [] s.form = "urn" -> 45
      [] s.form = "braced" -> 38
      [] s.form = "compact" -> 32
      [] OTHER -> 0

\* ------------------------------------------------------------------ text
Space == " "
LowerLetters == <<"a", "b", "c", "e", "h", "i", "m", "r", "s">>
UpperLetters == <<"A", "B", "C", "E", "H", "I", "M", "R", "S">>

\* strings.ToLower on one character
LowerChar(c) ==
    IF \E i \in 1..Len(UpperLetters) : UpperLetters[i] = c
    THEN LowerLetters[CHOOSE i \in 1..Len(UpperLetters) : UpperLetters[i] = c]
    ELSE c

\* strings.ToLower
ToLower(s) == [i \in 1..Len(s) |-> LowerChar(s[i])]

RECURSIVE TrimLeft(_)
TrimLeft(s) ==
    IF s # <<>> /\ Head(s) = Space THEN TrimLeft(Tail(s)) ELSE s

RECURSIVE TrimRight(_)
TrimRight(s) ==
    IF s # <<>> /\ s[Len(s)] = Space
    THEN TrimRight(SubSeq(s, 1, Len(s) - 1)) ELSE s

\* strings.TrimSpace
TrimSpace(s) == TrimRight(TrimLeft(s))

\* ---------------------------------------------------------- request body
\* the documents a body can carry: "" (nothing), "trx1" and "trx2" (JSON of
\* a Transaction) and "junk" (bytes that are no JSON), with their lengths
DocLen(d) ==
    CASE d = "" -> 0
      [] d = "trx1" -> 40
      [] d = "trx2" -> 41
      [] OTHER -> 4

DocCode(d) ==
    CASE d = "" -> 0
      [] d = "trx1" -> 101
      [] d = "trx2" -> 102
      [] OTHER -> 103

\* len(body)
BodyLen(b) == DocLen(b.doc) + b.pad

\* json.Unmarshal(payload, trx): blanks after the document are allowed; an
\* empty input and bytes that are no JSON are errors
UnmarshalTransaction(b) ==
    IF b.doc \in {"trx1", "trx2"}
    THEN [err |-> FALSE, trx |-> b.doc]
    ELSE [err |-> TRUE, trx |-> "none"]

\* ----------------------------------------------------------------- hmac
RECURSIVE Roll(_, _)
Roll(s, h) == IF s = <<>> THEN h ELSE Roll(Tail(s), (h * 31 + Head(s) + 1) % 65521)

\* hmac.New(sha256.New, key) over msg, then Sum(nil): sha256Size bytes that
\* depend on the key and on every unit of the message
HmacSha256(key, msg) ==
    LET k == Roll(key, 7)
        h == Roll(msg, k)
    IN  [i \in 1..sha256Size |-> (h + i * (k + 1)) % 256]

\* the bytes of an RFC3339 text and of a body, as units of the digest
TextUnits(s) == <<s.wall, s.frac, IF s.utc THEN 1 ELSE 0, s.min>>
BodyUnits(b) == <<DocCode(b.doc), b.pad>>

\* subtle.ConstantTimeCompare: 1 when equal in length and content, else 0
ConstantTimeCompare(x, y) ==
    IF Len(x) # Len(y) THEN 0 ELSE IF x = y THEN 1 ELSE 0

\* ---------------------------------------------------------- bearer token
\* BearerToken.sign: the digest of the UTC timestamp text, then the content
sign(t, secret, contentToSign) ==
    HmacSha256(secret,
               TextUnits(FormatRFC3339(UTC(t.Timestamp))) \o BodyUnits(contentToSign))

\* BearerToken.Sign: stores the signature, never fails
SignMutNoContent(t, apiKeySecret, contentToSign) ==
    [t EXCEPT !.Signature =
        HmacSha256(apiKeySecret, TextUnits(FormatRFC3339(UTC(t.Timestamp))))]

Sign(t, apiKeySecret, contentToSign) ==
    [t EXCEPT !.Signature = sign(t, apiKeySecret, contentToSign)]

\* BearerToken.Verify at clock reading now (ticks): the signature first, then
\* the window [now - maxClockSkew, now + maxClockSkew], both ends inside
VerifyMutTimeFirst(t, apiKeySecret, contentToSign, maxClockSkew, now) ==
    LET calculatedSig == sign(t, apiKeySecret, contentToSign)
        min == now - maxClockSkew
        max == now + maxClockSkew
        ts == Instant(UTC(t.Timestamp))
    IN  IF ts < min \/ ts > max THEN "illegal timestamp"
        ELSE IF ConstantTimeCompare(t.Signature, calculatedSig) # 1
        THEN "illegal signature"
        ELSE "nil"

VerifyMutExclusive(t, apiKeySecret, contentToSign, maxClockSkew, now) ==
    LET calculatedSig == sign(t, apiKeySecret, contentToSign)
        min == now - maxClockSkew
        max == now + maxClockSkew
        ts == Instant(UTC(t.Timestamp))
    IN  IF ConstantTimeCompare(t.Signature, calculatedSig) # 1
        THEN "illegal signature"
        ELSE IF ts <= min \/ ts >= max THEN "illegal timestamp"
        ELSE "nil"

Verify(t, apiKeySecret, contentToSign, maxClockSkew, now) ==
    LET calculatedSig == sign(t, apiKeySecret, contentToSign)
        min == now - maxClockSkew
        max == now + maxClockSkew
        ts == Instant(UTC(t.Timestamp))
    IN  IF ConstantTimeCompare(t.Signature, calculatedSig) # 1
        THEN "illegal signature"
        ELSE IF ts < min \/ ts > max THEN "illegal timestamp"
        ELSE "nil"

\* the algorithm tag Pack writes
AlgoTag == <<"H", "M", "A", "C", "-", "S", "H", "A", "2", "5", "6">>
AlgoLower == <<"h", "m", "a", "c", "-", "s", "h", "a", "2", "5", "6">>

\* base64.URLEncoding.EncodeToString of n bytes: 4 characters per 3 bytes
Base64Len(n) == 4 * ((n + 2) \div 3)

\* characters of the JSON envelope around the four values
EnvelopeLen(kid, ts, algo, sig) ==
    55 + UUIDTextLen(kid) + RFC3339Len(ts) + Len(algo) + Len(sig)

\* len(packed)
PackedLen(p) ==
    IF p.b64 /\ p.json
    THEN Base64Len(EnvelopeLen(p.apiKeyID, p.timestamp, p.algo, p.signature) + p.extra)
    ELSE p.extra

\* BearerToken.Pack: json.Marshal of the envelope, then base64url
PackMutLocalNoZone(t) ==
    [b64 |-> TRUE, json |-> TRUE, extra |-> 0,
     apiKeyID |-> UUIDString(t.APIKeyID),
     timestamp |-> [FormatRFC3339(t.Timestamp) EXCEPT !.utc = TRUE, !.min = 0],
     algo |-> AlgoTag,
     signature |-> HexEncode(t.Signature)]

Pack(t) ==
    [b64 |-> TRUE, json |-> TRUE, extra |-> 0,
     apiKeyID |-> UUIDString(t.APIKeyID),
     timestamp |-> FormatRFC3339(t.Timestamp),
     algo |-> AlgoTag,
     signature |-> HexEncode(t.Signature)]

\* BearerToken.Unpack(packed) on receiver t: the error ("nil" for none) and
\* the receiver afterwards
UnpackMutNoAlgoCheck(t, packed) ==
    LET apiKeyID == UUIDParse(packed.apiKeyID)
        timestamp == ParseRFC3339(packed.timestamp)
        sig == HexDecode(packed.signature)
    IN  IF PackedLen(packed) > maxPackedLen
        THEN [err |-> "bearer token string is too long", token |-> t]
        ELSE IF ~packed.b64
        THEN [err |-> "unable to parse the bearer token", token |-> t]
        ELSE IF ~packed.json
        THEN [err |-> "unable to parse the JSON content of the bearer token", token |-> t]
        ELSE IF apiKeyID.err
        THEN [err |-> "unable to parse the API key ID", token |-> t]
        ELSE IF timestamp.err
        THEN [err |-> "unable to parse the timestamp value", token |-> t]
        ELSE IF sig.err
        THEN [err |-> "unable to parse the signature value", token |-> t]
        ELSE [err |-> "nil",
              token |-> [APIKeyID |-> apiKeyID.id,
                         Timestamp |-> timestamp.time,
                         Signature |-> sig.bytes]]

UnpackMutLenInclusive(t, packed) ==
    LET apiKeyID == UUIDParse(packed.apiKeyID)
        timestamp == ParseRFC3339(packed.timestamp)
        sig == HexDecode(packed.signature)
    IN  IF PackedLen(packed) >= maxPackedLen
        THEN [err |-> "bearer token string is too long", token |-> t]
        ELSE IF ~packed.b64
        THEN [err |-> "unable to parse the bearer token", token |-> t]
        ELSE IF ~packed.json
        THEN [err |-> "unable to parse the JSON content of the bearer token", token |-> t]
        ELSE IF apiKeyID.err
        THEN [err |-> "unable to parse the API key ID", token |-> t]
        ELSE IF timestamp.err
        THEN [err |-> "unable to parse the timestamp value", token |-> t]
        ELSE IF ToLower(TrimSpace(packed.algo)) # AlgoLower
        THEN [err |-> "unsupported signing algorithm", token |-> t]
        ELSE IF sig.err
        THEN [err |-> "unable to parse the signature value", token |-> t]
        ELSE [err |-> "nil",
              token |-> [APIKeyID |-> apiKeyID.id,
                         Timestamp |-> timestamp.time,
                         Signature |-> sig.bytes]]

UnpackMutAssignAsParsed(t, packed) ==
    LET apiKeyID == UUIDParse(packed.apiKeyID)
        timestamp == ParseRFC3339(packed.timestamp)
        sig == HexDecode(packed.signature)
        t1 == [t EXCEPT !.APIKeyID = apiKeyID.id]
        t2 == [t1 EXCEPT !.Timestamp = timestamp.time]
    IN  IF PackedLen(packed) > maxPackedLen
        THEN [err |-> "bearer token string is too long", token |-> t]
        ELSE IF ~packed.b64
        THEN [err |-> "unable to parse the bearer token", token |-> t]
        ELSE IF ~packed.json
        THEN [err |-> "unable to parse the JSON content of the bearer token", token |-> t]
        ELSE IF apiKeyID.err
        THEN [err |-> "unable to parse the API key ID", token |-> t]
        ELSE IF timestamp.err
        THEN [err |-> "unable to parse the timestamp value", token |-> t1]
        ELSE IF ToLower(TrimSpace(packed.algo)) # AlgoLower
        THEN [err |-> "unsupported signing algorithm", token |-> t2]
        ELSE IF sig.err
        THEN [err |-> "unable to parse the signature value", token |-> t2]
        ELSE [err |-> "nil",
              token |-> [APIKeyID |-> apiKeyID.id,
                         Timestamp |-> timestamp.time,
                         Signature |-> sig.bytes]]

Unpack(t, packed) ==
    LET apiKeyID == UUIDParse(packed.apiKeyID)
        timestamp == ParseRFC3339(packed.timestamp)
        sig == HexDecode(packed.signature)
    IN  IF PackedLen(packed) > maxPackedLen
        THEN [err |-> "bearer token string is too long", token |-> t]
        ELSE IF ~packed.b64
        THEN [err |-> "unable to parse the bearer token", token |-> t]
        ELSE IF ~packed.json
        THEN [err |-> "unable to parse the JSON content of the bearer token", token |-> t]
        ELSE IF apiKeyID.err
        THEN [err |-> "unable to parse the API key ID", token |-> t]
        ELSE IF timestamp.err
        THEN [err |-> "unable to parse the timestamp value", token |-> t]
        ELSE IF ToLower(TrimSpace(packed.algo)) # AlgoLower
        THEN [err |-> "unsupported signing algorithm", token |-> t]
        ELSE IF sig.err
        THEN [err |-> "unable to parse the signature value", token |-> t]
        ELSE [err |-> "nil",
              token |-> [APIKeyID |-> apiKeyID.id,
                         Timestamp |-> timestamp.time,
                         Signature |-> sig.bytes]]

\* ------------------------------------------------------------ input sets
Secrets == {<<1, 2, 3>>, <<9>>}
Contents == {[doc |-> "trx1", pad |-> 0], [doc |-> "", pad |-> 0]}
TokenSecs == {1, 2}
\* zone offsets in seconds: UTC, UTC-5h, and a zone 90 s east of UTC
Offsets == {0, -18000, 90}
Timestamps == [sec : TokenSecs, frac : 0..(TicksPerSec - 1), off : Offsets]
\* maxClockSkew values in ticks
Skews == {0, TicksPerSec}
ClockTicks == 0..(MaxClockSec * TicksPerSec)

\* &BearerToken{}
ZeroToken ==
    [APIKeyID |-> "nil", Timestamp |-> [sec |-> 0, frac |-> 0, off |-> 0],
     Signature |-> <<>>]

\* ways a caller can overwrite the exported Signature field
TamperKinds == {"flip", "short", "long", "huge", "empty"}

Tampered(sig, kind) ==
    CASE kind = "flip" ->
            IF sig = <<>> THEN <<1>>
            ELSE [sig EXCEPT ![1] = (sig[1] + 1) % 256]
      [] kind = "short" ->
            IF sig = <<>> THEN <<>> ELSE SubSeq(sig, 1, Len(sig) - 1)
      [] kind = "long" -> Append(sig, 0)
      [] kind = "huge" -> [i \in 1..LongSigLen |-> 0]
      [] OTHER -> <<>>

\* ways a peer can alter a packed string before it is unpacked
ForgeKinds == {"algoLower", "algoPadded", "algoOther", "algoEmpty",
               "keyUrn", "keyBad", "tsBad", "tsFrac", "sigUpper", "sigOdd",
               "sigBadChar", "notBase64", "notJSON", "oversize",
               "padMax", "padOver", "rawMax", "rawOver"}

\* bytes whose base64 text has exactly maxPackedLen characters
MaxEnvelopeLen == (maxPackedLen \div 4) * 3

\* blanks that bring the JSON text of w to n bytes
PadTo(w, n) == n - EnvelopeLen(w.apiKeyID, w.timestamp, w.algo, w.signature)

UpperHexChar(c) ==
    IF HexVal(c) >= 10 THEN UpperHex[HexVal(c) - 9] ELSE c

Forged(w, kind) ==
    CASE kind = "algoLower" -> [w EXCEPT !.algo = AlgoLower]
      [] kind = "algoPadded" -> [w EXCEPT !.algo = <<Space>> \o AlgoTag \o <<Space>>]
      [] kind = "algoOther" ->
            [w EXCEPT !.algo = <<"H", "M", "A", "C", "-", "S", "H", "A", "1">>]
      [] kind = "algoEmpty" -> [w EXCEPT !.algo = <<>>]
      [] kind = "keyUrn" -> [w EXCEPT !.apiKeyID.form = "urn"]
      [] kind = "keyBad" -> [w EXCEPT !.apiKeyID.form = "bad"]
      [] kind = "tsBad" -> [w EXCEPT !.timestamp.ok = FALSE]
      [] kind = "tsFrac" -> [w EXCEPT !.timestamp.frac = 1]
      [] kind = "sigUpper" ->
            [w EXCEPT !.signature =
                [i \in 1..Len(w.signature) |-> UpperHexChar(w.signature[i])]]
      [] kind = "sigOdd" -> [w EXCEPT !.signature = Append(w.signature, "0")]
      [] kind = "sigBadChar" -> [w EXCEPT !.signature = <<"g", "0">>]
      [] kind = "notBase64" -> [w EXCEPT !.b64 = FALSE, !.extra = 20]
      [] kind = "notJSON" -> [w EXCEPT !.json = FALSE, !.extra = 20]
      [] kind = "padMax" -> [w EXCEPT !.extra = PadTo(w, MaxEnvelopeLen)]
      [] kind = "padOver" -> [w EXCEPT !.extra = PadTo(w, MaxEnvelopeLen + 1)]
      [] kind = "rawMax" -> [w EXCEPT !.b64 = FALSE, !.extra = maxPackedLen]
      [] kind = "rawOver" -> [w EXCEPT !.b64 = FALSE, !.extra = maxPackedLen + 1]
      [] OTHER -> [w EXCEPT !.extra = maxPackedLen]

\* ------------------------------------------------------------------ state
VARIABLES
    stage,    \* token scenario: position in new/signed/packed/unpacked/verified
    tok,      \* the BearerToken
    prov,     \* how tok.Signature came about: by Sign (with which secret and
              \* content), and whether it was overwritten since
    wire,     \* the packed string
    orig,     \* the token Pack was called on
    forges,   \* the alterations made to wire since Pack
    unp,      \* the last Unpack: its error and the receiver before the call
    ver,      \* the last Verify: its arguments, clock reading and error
    pc,       \* webhook handler: idle, or the gate the request is at
    req,      \* the inbound request: Authorization values, body, read error
    now,      \* the server's clock in ticks
    arrived,  \* the clock when the request arrived
    token,    \* the handler's token
    payload,  \* the body bytes the handler holds, and how many it read
    resp,     \* the response writer: status, WriteHeader calls, body
    calls,    \* invocations of the business callback for this request
    cpc,      \* API call of the client: idle, built, signed, answered, returned
    creq,     \* the outbound request: method, Authorization values, body stream
    corig,    \* the outbound request as it was built
    csig,     \* what Client.sign did: its error and the token it built
    cans,     \* what the transport sent and the answer of the remote service
    cret      \* the error the API method returned

tokenVars == <<stage, tok, prov, wire, orig, forges, unp, ver>>
hookVars == <<pc, req, now, arrived, token, payload, resp, calls>>
clientVars == <<cpc, creq, corig, csig, cans, cret>>
vars == <<stage, tok, prov, wire, orig, forges, unp, ver,
          pc, req, now, arrived, token, payload, resp, calls,
          cpc, creq, corig, csig, cans, cret>>

NoWire == Pack(ZeroToken)
NoVer == [secret |-> <<>>, content |-> [doc |-> "", pad |-> 0],
          skew |-> 0, now |-> 0, err |-> "none"]
NoProv == [signed |-> FALSE, tampered |-> FALSE, secret |-> <<>>,
           content |-> [doc |-> "", pad |-> 0]]

NoBody == [doc |-> "", pad |-> 0]
NoRequest == [auth |-> <<>>, body |-> NoBody, readErr |-> FALSE]
NoResponse == [contentType |-> "", status |-> 0, writeHeaders |-> 0,
               text |-> "", detail |-> ""]
NoCalls == [n |-> 0, trx |-> "none", failed |-> FALSE]

\* the webhook handler is not in use
HookIdle ==
    /\ pc = "off"
    /\ req = NoRequest
    /\ now = 0
    /\ arrived = 0
    /\ token = ZeroToken
    /\ payload = [bytes |-> NoBody, read |-> 0]
    /\ resp = NoResponse
    /\ calls = NoCalls

\* a Go error is the chain of its layers, outermost first; nil is <<>>
nil == <<>>
NoRespBody == [json |-> FALSE, code |-> ""]
Layer(kind, msg) == [kind |-> kind, msg |-> msg, status |-> 0, body |-> NoRespBody]

\* an http.Request body: nil, http.NoBody, or a reader over data that is
\* consumed by reading and may fail on Read
NilBody == [kind |-> "nil", data |-> NoBody, consumed |-> FALSE, fails |-> FALSE]
NoOutbound == [caller |-> "none", expected |-> 0, auth |-> <<>>, body |-> NilBody]
NoSig == [err |-> nil, token |-> ZeroToken]
NoAnswer == [sentAuth |-> <<>>, sentBody |-> NoBody, err |-> FALSE,
             status |-> 0, body |-> NoRespBody, bodyErr |-> FALSE]

\* the client's API is not in use
ClientOff ==
    /\ cpc = "off"
    /\ creq = NoOutbound
    /\ corig = NoOutbound
    /\ csig = NoSig
    /\ cans = NoAnswer
    /\ cret = nil

\* no token scenario is running
TokenIdle ==
    /\ stage = "off"
    /\ tok = ZeroToken
    /\ prov = NoProv
    /\ wire = NoWire
    /\ orig = ZeroToken
    /\ forges = {}
    /\ unp = [err |-> "none", before |-> ZeroToken]
    /\ ver = NoVer

TokenInit ==
    /\ HookIdle
    /\ ClientOff
    /\ stage = "new"
    /\ \E id \in UUIDs, ts \in Timestamps :
          tok = [APIKeyID |-> id, Timestamp |-> ts, Signature |-> <<>>]
    /\ prov = NoProv
    /\ wire = NoWire
    /\ orig = ZeroToken
    /\ forges = {}
    /\ unp = [err |-> "none", before |-> ZeroToken]
    /\ ver = NoVer

\* t.Sign(secret, content)
DoSign ==
    /\ stage = "new"
    /\ \E secret \in Secrets, content \in Contents :
          /\ tok' = Sign(tok, secret, content)
          /\ prov' = [signed |-> TRUE, tampered |-> FALSE,
                      secret |-> secret, content |-> content]
    /\ stage' = "signed"
    /\ UNCHANGED <<wire, orig, forges, unp, ver>>
    /\ UNCHANGED hookVars
    /\ UNCHANGED clientVars

\* t.Signature = ... by the caller
DoTamper ==
    /\ stage \in {"new", "signed"}
    /\ ~prov.tampered
    /\ \E kind \in TamperKinds :
          /\ tok' = [tok EXCEPT !.Signature = Tampered(tok.Signature, kind)]
          /\ tok'.Signature # tok.Signature
    /\ prov' = [prov EXCEPT !.tampered = TRUE]
    /\ stage' = "signed"
    /\ UNCHANGED <<wire, orig, forges, unp, ver>>
    /\ UNCHANGED hookVars
    /\ UNCHANGED clientVars

\* t.Pack()
DoPack ==
    /\ stage \in {"new", "signed"}
    /\ wire' = Pack(tok)
    /\ orig' = tok
    /\ forges' = {}
    /\ stage' = "packed"
    /\ UNCHANGED <<tok, prov, unp, ver>>
    /\ UNCHANGED hookVars
    /\ UNCHANGED clientVars

AlgoForgeKinds == {"algoLower", "algoPadded", "algoOther", "algoEmpty"}

\* the peer alters the packed string in transit: one field, or the
\* algorithm tag and one other field
DoForge ==
    /\ stage = "packed"
    /\ prov.signed /\ ~prov.tampered
    /\ Cardinality(forges) < 2
    /\ \E kind \in ForgeKinds \ forges :
          /\ forges # {} => /\ forges \subseteq AlgoForgeKinds
                            /\ kind \notin AlgoForgeKinds
          /\ wire' = Forged(wire, kind)
          /\ forges' = forges \cup {kind}
    /\ UNCHANGED <<stage, tok, prov, orig, unp, ver>>
    /\ UNCHANGED hookVars
    /\ UNCHANGED clientVars

\* t.Unpack(wire) on a fresh receiver (t := &BearerToken{}) or on the
\* token at hand
DoUnpack ==
    /\ stage = "packed"
    /\ \E recv \in {tok, ZeroToken} :
          LET r == Unpack(recv, wire)
          IN  /\ tok' = r.token
              /\ unp' = [err |-> r.err, before |-> recv]
    /\ prov' = [prov EXCEPT !.tampered = prov.tampered \/ forges # {}]
    /\ stage' = "unpacked"
    /\ UNCHANGED <<wire, orig, forges, ver>>
    /\ UNCHANGED hookVars
    /\ UNCHANGED clientVars

\* t.Verify(secret, content, maxClockSkew) with time.Now() reading now
DoVerify ==
    /\ \/ stage = "signed"
       \/ stage = "unpacked" /\ unp.err = "nil"
    /\ \E secret \in Secrets, content \in Contents, skew \in Skews,
          reading \in ClockTicks :
          ver' = [secret |-> secret, content |-> content, skew |-> skew,
                  now |-> reading,
                  err |-> Verify(tok, secret, content, skew, reading)]
    /\ stage' = "verified"
    /\ UNCHANGED <<tok, prov, wire, orig, forges, unp>>
    /\ UNCHANGED hookVars
    /\ UNCHANGED clientVars

TokenNext ==
    \/ DoSign
    \/ DoTamper
    \/ DoPack
    \/ DoForge
    \/ DoUnpack
    \/ DoVerify

TokenSpec == TokenInit /\ [][TokenNext]_vars

\* ------------------------------------------------------ webhook handler
\* the Client of the handler: NewClient's key identifier, decoded secret
\* and MaxTimeDiff (> 0)
Client == [keyID |-> "k1", keySec |-> <<1, 2, 3>>, maxTimeDiff |-> TicksPerSec]

\* An Authorization value is the text pre, then at most one packed string
\* (tok), then the text post. TokenChar stands for a character of a packed
\* string: it is no blank.
TokenChar == "#"
Bearer == <<"B", "e", "a", "r", "e", "r">>
bearerPrefix == <<"b", "e", "a", "r", "e", "r", Space>>

\* a string that is no packed token: n characters that are no base64
RawString(n) ==
    [b64 |-> FALSE, json |-> FALSE, extra |-> n,
     apiKeyID |-> [form |-> "bad", id |-> "k1"],
     timestamp |-> [ok |-> FALSE, wall |-> 0, frac |-> 0, utc |-> TRUE, min |-> 0],
     algo |-> <<>>, signature |-> <<>>]

\* strings.TrimSpace(hdrs[0])
TrimHeader(h) ==
    IF h.tok = <<>>
    THEN [pre |-> TrimSpace(h.pre \o h.post), tok |-> <<>>, post |-> <<>>]
    ELSE [pre |-> TrimLeft(h.pre), tok |-> h.tok, post |-> TrimRight(h.post)]

\* len(hdr)
HeaderLen(h) ==
    Len(h.pre) + (IF h.tok = <<>> THEN 0 ELSE PackedLen(h.tok[1])) + Len(h.post)

\* strings.ToLower(hdr[:7]), for len(hdr) >= 7
HeaderSchemeMutCaseSensitive(h) ==
    IF Len(h.pre) >= 7 THEN SubSeq(h.pre, 1, 7)
    ELSE h.pre \o [i \in 1..(7 - Len(h.pre)) |-> TokenChar]

HeaderScheme(h) ==
    IF Len(h.pre) >= 7 THEN ToLower(SubSeq(h.pre, 1, 7))
    ELSE ToLower(h.pre \o [i \in 1..(7 - Len(h.pre)) |-> TokenChar])

\* strings.TrimSpace(hdr[7:]), for a header that starts with the scheme:
\* the packed string alone, or a string with other characters in it
HeaderToken(h) ==
    LET mid == TrimLeft(SubSeq(h.pre, 8, Len(h.pre)))
    IN  IF h.tok = <<>> THEN RawString(Len(TrimSpace(mid)))
        ELSE IF mid = <<>> /\ h.post = <<>> THEN h.tok[1]
        ELSE RawString(Len(mid) + PackedLen(h.tok[1]) + Len(h.post))

Reply(status, text, detail) ==
    [contentType |-> "text/plain", status |-> status, writeHeaders |-> 1,
     text |-> text, detail |-> detail]

\* webhook.go lines 19-51: the gates on the Authorization header. pass is
\* TRUE when the token unpacked; otherwise reply is what the handler wrote.
HeaderGates(hdrs) ==
    LET hdr == TrimHeader(hdrs[1])
        v == HeaderToken(hdr)
        u == Unpack(ZeroToken, v)
        stop(r) == [pass |-> FALSE, reply |-> r, token |-> ZeroToken]
    IN  IF Len(hdrs) = 0
        THEN stop(Reply(StatusUnauthorized, "Missing Authorization header.", ""))
        ELSE IF Len(hdrs) > 1
        THEN stop(Reply(StatusBadRequest, "Multiple Authorization header.", ""))
        ELSE IF HeaderLen(hdr) < 7
        THEN stop(Reply(StatusBadRequest, "Incomplete Authorization header.", ""))
        ELSE IF HeaderScheme(hdr) # bearerPrefix
        THEN stop(Reply(StatusBadRequest, "Invalid Authorization token type.", ""))
        ELSE IF PackedLen(v) = 0
        THEN stop(Reply(StatusBadRequest, "Missing bearer token.", ""))
        ELSE IF u.err # "nil"
        THEN stop(Reply(StatusBadRequest, "Invalid bearer token: %s", u.err))
        ELSE [pass |-> TRUE, reply |-> NoResponse, token |-> u.token]

\* ------------------------------------------------------ inbound requests
HookBodies == {[doc |-> d, pad |-> p] : d \in {"trx1", "junk"}, p \in {0, maxReadBytes}}

\* the sender's clock at signing: on the second in UTC, or with a
\* sub-second part in a zone five hours west
SenderTimes == {[sec |-> 2, frac |-> 0, off |-> 0], [sec |-> 2, frac |-> 1, off |-> -18000]}

\* tokens a sender can build: either key identifier, signed with the
\* client's secret or another one, over any of the bodies
SenderTokens ==
    {Sign([APIKeyID |-> id, Timestamp |-> ts, Signature |-> <<>>], sec, b) :
        id \in UUIDs, ts \in SenderTimes, sec \in Secrets, b \in HookBodies}

GoodWire ==
    Pack(Sign([APIKeyID |-> Client.keyID,
               Timestamp |-> [sec |-> 2, frac |-> 0, off |-> 0], Signature |-> <<>>],
              Client.keySec, [doc |-> "trx1", pad |-> 0]))

HookWires ==
    {Pack(t) : t \in SenderTokens}
        \cup {Forged(GoodWire, k) : k \in {"algoOther", "algoLower", "oversize", "sigOdd"}}

Plain(pre, post) == [pre |-> pre, tok |-> <<>>, post |-> post]
With(pre, w, post) == [pre |-> pre, tok |-> <<w>>, post |-> post]

\* the Authorization values of a request
AuthValues ==
    {<<>>,
     <<With(Bearer \o <<Space>>, GoodWire, <<>>), With(Bearer \o <<Space>>, GoodWire, <<>>)>>,
     <<Plain(<<>>, <<>>)>>,
     <<Plain(Bearer, <<>>)>>,
     <<Plain(Bearer \o <<Space, Space>>, <<>>)>>,
     <<Plain(Bearer \o <<Space, "x">>, <<>>)>>,
     <<With(<<"B", "a", "s", "i", "c", Space>>, GoodWire, <<>>)>>,
     <<With(<<"B", "E", "A", "R", "E", "R", Space>>, GoodWire, <<>>)>>,
     <<With(<<Space>> \o Bearer \o <<Space, Space>>, GoodWire, <<Space>>)>>,
     <<With(Bearer \o <<Space>>, GoodWire, <<Space, "x">>)>>}
        \cup {<<With(Bearer \o <<Space>>, w, <<>>)>> : w \in HookWires}

Requests == [auth : AuthValues, body : HookBodies, readErr : BOOLEAN]

HookInit ==
    /\ pc = "idle"
    /\ req = NoRequest
    /\ now = 0
    /\ arrived = 0
    /\ token = ZeroToken
    /\ payload = [bytes |-> NoBody, read |-> 0]
    /\ resp = NoResponse
    /\ calls = NoCalls

Init == TokenIdle /\ HookInit /\ ClientOff

\* the server's clock advances
Tick ==
    /\ pc # "off"
    /\ now < MaxClockSec * TicksPerSec
    /\ now' = now + 1
    /\ UNCHANGED <<pc, req, arrived, token, payload, resp, calls>>
    /\ UNCHANGED tokenVars
    /\ UNCHANGED clientVars

\* the server calls the handler with a request; line 17 sets Content-Type
Receive ==
    /\ pc = "idle"
    /\ \E r \in Requests : req' = r
    /\ arrived' = now
    /\ token' = ZeroToken
    /\ payload' = [bytes |-> NoBody, read |-> 0]
    /\ resp' = [NoResponse EXCEPT !.contentType = "text/plain"]
    /\ calls' = NoCalls
    /\ pc' = "headers"
    /\ UNCHANGED now
    /\ UNCHANGED tokenVars
    /\ UNCHANGED clientVars

\* lines 19-51
CheckHeaders ==
    /\ pc = "headers"
    /\ LET g == HeaderGates(req.auth)
       IN  IF g.pass
           THEN /\ token' = g.token
                /\ pc' = "read"
                /\ UNCHANGED resp
           ELSE /\ resp' = g.reply
                /\ pc' = "done"
                /\ UNCHANGED token
    /\ UNCHANGED <<req, now, arrived, payload, calls>>
    /\ UNCHANGED tokenVars
    /\ UNCHANGED clientVars

\* lines 53-58: io.ReadAll(r.Body) reads the body to its end
ReadBody ==
    /\ pc = "read"
    /\ IF req.readErr
       THEN /\ resp' = Reply(StatusInternalServerError,
                              "Unable to read request body: %s", "read error")
            /\ pc' = "done"
            /\ UNCHANGED payload
       ELSE /\ payload' = [bytes |-> req.body, read |-> BodyLen(req.body)]
            /\ pc' = "verify"
            /\ UNCHANGED resp
    /\ UNCHANGED <<req, now, arrived, token, calls>>
    /\ UNCHANGED tokenVars
    /\ UNCHANGED clientVars

\* lines 60-64
VerifySignature ==
    /\ pc = "verify"
    /\ LET err == Verify(token, Client.keySec, payload.bytes, Client.maxTimeDiff, now)
       IN  IF err # "nil"
           THEN /\ resp' = Reply(StatusForbidden,
                                  "Unable to verify the request signature: %s", err)
                /\ pc' = "done"
           ELSE /\ pc' = "signer"
                /\ UNCHANGED resp
    /\ UNCHANGED <<req, now, arrived, token, payload, calls>>
    /\ UNCHANGED tokenVars
    /\ UNCHANGED clientVars

\* line 66: bytes.Equal(token.APIKeyID[:], c.keyID[:])
SameSignerMutAlways(t, c) == TRUE

SameSigner(t, c) == t.APIKeyID = c.keyID

\* lines 66-70: on a foreign key identifier WriteHeader(403) is called, and
\* then err.Error() is evaluated on the nil err of line 53: the handler
\* panics before it writes a body
CheckSigner ==
    /\ pc = "signer"
    /\ IF ~SameSigner(token, Client)
       THEN /\ resp' = [resp EXCEPT !.status = StatusForbidden, !.writeHeaders = 1]
            /\ pc' = "panicked"
       ELSE /\ pc' = "parse"
            /\ UNCHANGED resp
    /\ UNCHANGED <<req, now, arrived, token, payload, calls>>
    /\ UNCHANGED tokenVars
    /\ UNCHANGED clientVars

\* lines 72-77
ParsePayload ==
    /\ pc = "parse"
    /\ IF UnmarshalTransaction(payload.bytes).err
       THEN /\ resp' = Reply(StatusBadRequest, "Invalid request payload: %s", "json")
            /\ pc' = "done"
       ELSE /\ pc' = "callback"
            /\ UNCHANGED resp
    /\ UNCHANGED <<req, now, arrived, token, payload, calls>>
    /\ UNCHANGED tokenVars
    /\ UNCHANGED clientVars

\* lines 79-86: the business callback runs and returns an error or nil
InvokeHandler ==
    /\ pc = "callback"
    /\ \E failed \in BOOLEAN :
          /\ calls' = [n |-> calls.n + 1,
                       trx |-> UnmarshalTransaction(payload.bytes).trx,
                       failed |-> failed]
          /\ resp' = IF failed
                     THEN Reply(StatusInternalServerError,
                                "An error occurred while processing the webhook notification: %s",
                                "handler error")
                     ELSE Reply(StatusAccepted,
                                "The webhook notification has been processed successfully.", "")
    /\ pc' = "done"
    /\ UNCHANGED <<req, now, arrived, token, payload>>
    /\ UNCHANGED tokenVars
    /\ UNCHANGED clientVars

\* the handler has returned, or its panic has unwound: the request and its
\* response writer are gone and the server takes the next request
Return ==
    /\ pc \in {"done", "panicked"}
    /\ pc' = "idle"
    /\ req' = NoRequest
    /\ arrived' = 0
    /\ token' = ZeroToken
    /\ payload' = [bytes |-> NoBody, read |-> 0]
    /\ resp' = NoResponse
    /\ calls' = NoCalls
    /\ UNCHANGED now
    /\ UNCHANGED tokenVars
    /\ UNCHANGED clientVars

Next ==
    \/ Tick
    \/ Receive
    \/ CheckHeaders
    \/ ReadBody
    \/ VerifySignature
    \/ CheckSigner
    \/ ParsePayload
    \/ InvokeHandler
    \/ Return

Spec == Init /\ [][Next]_vars

\* ------------------------------------------------------------ Go errors
\* errors.New(msg)
ErrorsNew(msg) == <<Layer("errorString", msg)>>

\* pkg/errors: WithStack(nil) is nil; Wrap adds a message and a stack
WithStack(err) == IF err = nil THEN nil ELSE <<Layer("withStack", "")>> \o err
Wrap(err, msg) ==
    IF err = nil THEN nil ELSE <<Layer("withStack", ""), Layer("withMessage", msg)>> \o err

\* errors.Errorf("remote service returns unexpected response: %s - %s", ...)
UnexpectedResponse(status, respBody) ==
    <<[kind |-> "fundamental",
       msg |-> "remote service returns unexpected response: %s - %s",
       status |-> status, body |-> respBody]>>

\* errors.Is(err, target) for a target that is one comparable value
ErrorsIs(err, target) == \E i \in DOMAIN err : err[i] = target[1]

\* errors.As(err, &e) for e of type *errUnexpectedStatus
AsUnexpectedStatus(err) == {i \in DOMAIN err : err[i].kind = "errUnexpectedStatus"}

ErrCurrencyMismatch == ErrorsNew("payment error: currency mismatch")
ErrIncorrectRecipientData == ErrorsNew("payment error: incorrect recipient data")
ErrInsufficientBalance == ErrorsNew("payment error: insufficient balance")
ErrInvalidRecipientID == ErrorsNew("payment error: recipient id")
ErrOutOfEFTHours == ErrorsNew("payment error: out of eft hours")

\* the error codes wrapErr knows, and the sentinel of each
PaymentCodes ==
    {"CURRENCY_MISMATCH", "INCORRECT_RECIPIENT_DATA", "INSUFFICIENT_BALANCE",
     "INVALID_RECIPIENT_ID", "OUT_OF_EFT_HOURS"}

SentinelOf(code) ==
    CASE code = "CURRENCY_MISMATCH" -> ErrCurrencyMismatch
      [] code = "INCORRECT_RECIPIENT_DATA" -> ErrIncorrectRecipientData
      [] code = "INSUFFICIENT_BALANCE" -> ErrInsufficientBalance
      [] code = "INVALID_RECIPIENT_ID" -> ErrInvalidRecipientID
      [] OTHER -> ErrOutOfEFTHours

\* wrapErr: an error that holds no *errUnexpectedStatus comes back as it
\* is; otherwise the response body is parsed and its code picks a sentinel
wrapErr(err) ==
    LET at == AsUnexpectedStatus(err)
        e == err[CHOOSE i \in at : \A j \in at : i <= j]
    IN  IF at = {} THEN err
        ELSE IF ~e.body.json THEN <<Layer("json.SyntaxError", "")>>
        ELSE IF e.body.code \in PaymentCodes THEN SentinelOf(e.body.code)
        ELSE <<[kind |-> "APIErr", msg |-> "APIErr %s: %s",
                status |-> 0, body |-> e.body]>>

\* ------------------------------------------------------ outbound requests
\* io.ReadAll(body) of a reader: what is left of its data
Yield(b) == IF b.kind = "reader" /\ ~b.consumed /\ ~b.fails THEN b.data ELSE NoBody

\* bytes.NewReader(data), io.NopCloser(bytes.NewBuffer(data))
NewReader(data) == [kind |-> "reader", data |-> data, consumed |-> FALSE, fails |-> FALSE]
Drained(b) == IF b.kind = "reader" THEN [b EXCEPT !.consumed = TRUE] ELSE b

\* the value Client.sign gives the Authorization header
BearerValue(packed) == With(Bearer \o <<Space>>, packed, <<>>)

\* Client.sign at clock reading ts: the request after the call, the token
\* it built and the error
ClientSignMutNoRestore(c, r, ts) ==
    LET hasBody == r.body.kind \notin {"nil", "http.NoBody"}
        reqBuf == IF hasBody THEN Yield(r.body) ELSE NoBody
        t == Sign([APIKeyID |-> c.keyID, Timestamp |-> ts, Signature |-> <<>>],
                  c.keySec, reqBuf)
    IN  IF hasBody /\ r.body.fails
        THEN [err |-> WithStack(<<Layer("readError", "")>>),
              token |-> [APIKeyID |-> c.keyID, Timestamp |-> ts, Signature |-> <<>>],
              req |-> [r EXCEPT !.body = Drained(r.body)]]
        ELSE [err |-> nil, token |-> t,
              req |-> [r EXCEPT !.body = Drained(r.body),
                                !.auth = <<BearerValue(Pack(t))>>]]

ClientSign(c, r, ts) ==
    LET hasBody == r.body.kind \notin {"nil", "http.NoBody"}
        reqBuf == IF hasBody THEN Yield(r.body) ELSE NoBody
        t == Sign([APIKeyID |-> c.keyID, Timestamp |-> ts, Signature |-> <<>>],
                  c.keySec, reqBuf)
    IN  IF hasBody /\ r.body.fails
        THEN [err |-> WithStack(<<Layer("readError", "")>>),
              token |-> [APIKeyID |-> c.keyID, Timestamp |-> ts, Signature |-> <<>>],
              req |-> [r EXCEPT !.body = Drained(r.body)]]
        ELSE [err |-> nil, token |-> t,
              req |-> [r EXCEPT !.body = IF hasBody THEN NewReader(reqBuf) ELSE r.body,
                                !.auth = <<BearerValue(Pack(t))>>]]

\* Client.do after hc.Do: the error for the answer ans of the transport
DoResponse(expectedStatusCode, hasDst, ans) ==
    IF ans.err THEN WithStack(<<Layer("transport", "")>>)
    ELSE IF ans.status # expectedStatusCode
    THEN IF ans.bodyErr
         THEN Wrap(<<Layer("readError", "")>>,
                   "unable to read HTTP response for status code: %s (expected: %d)")
         ELSE UnexpectedResponse(ans.status, ans.body)
    ELSE IF hasDst /\ (ans.bodyErr \/ ~ans.body.json)
    THEN Wrap(<<Layer("decodeError", "")>>,
              "unable to parse JSON response of the remote service")
    ELSE nil

\* what an API method returns for the error of Client.do
ApiResult(err) == WithStack(err)

PaymentBodies == {[doc |-> d, pad |-> p] : d \in {"trx1", "trx2"}, p \in {0, 1}}
StaleValue == Plain(<<"B", "a", "s", "i", "c", Space, "x">>, <<>>)

\* the requests the API methods build: MakePayment posts a JSON body and
\* expects 202, Me sends no body and expects 200. Client.do and Client.sign
\* take any request: "do" stands for one with any kind of body and with
\* Authorization values set before the call.
Outbound ==
    {[caller |-> "MakePayment", expected |-> StatusAccepted, auth |-> <<>>,
      body |-> NewReader(b)] : b \in PaymentBodies}
        \cup {[caller |-> "Me", expected |-> StatusOK, auth |-> <<>>, body |-> NilBody]}
        \cup {[caller |-> "do", expected |-> StatusOK, auth |-> a, body |-> b] :
                a \in {<<>>, <<StaleValue>>, <<StaleValue, BearerValue(GoodWire)>>},
                b \in {NilBody, [NilBody EXCEPT !.kind = "http.NoBody"],
                       NewReader(NoBody), NewReader([doc |-> "trx1", pad |-> 0]),
                       [NewReader([doc |-> "trx1", pad |-> 0]) EXCEPT !.fails = TRUE]}}

HasDst(caller) == caller \in {"MakePayment", "Me"}

RespBodies ==
    {[json |-> TRUE, code |-> c] : c \in PaymentCodes \cup {"", "UNKNOWN"}}
        \cup {NoRespBody}

\* what hc.Do can come back with
Answers ==
    {[err |-> TRUE, status |-> 0, body |-> NoRespBody, bodyErr |-> FALSE]}
        \cup {[err |-> FALSE, status |-> st, body |-> b, bodyErr |-> FALSE] :
                st \in {StatusOK, StatusAccepted, StatusBadRequest,
                        StatusInternalServerError},
                b \in RespBodies}
        \cup {[err |-> FALSE, status |-> st, body |-> NoRespBody, bodyErr |-> TRUE] :
                st \in {StatusAccepted, StatusBadRequest}}

ClientInit ==
    /\ TokenIdle
    /\ HookIdle
    /\ cpc = "idle"
    /\ creq = NoOutbound
    /\ corig = NoOutbound
    /\ csig = NoSig
    /\ cans = NoAnswer
    /\ cret = nil

\* an API method builds its request
NewRequest ==
    /\ cpc = "idle"
    /\ \E r \in Outbound :
          /\ creq' = r
          /\ corig' = r
    /\ cpc' = "built"
    /\ UNCHANGED <<csig, cans, cret>>
    /\ UNCHANGED tokenVars
    /\ UNCHANGED hookVars

\* Client.do calls Client.sign; on its error the call returns
SignRequest ==
    /\ cpc = "built"
    /\ \E ts \in Timestamps :
          LET s == ClientSign(Client, creq, ts)
          IN  /\ creq' = s.req
              /\ csig' = [err |-> s.err, token |-> s.token]
              /\ cpc' = IF s.err = nil THEN "signed" ELSE "returned"
              /\ cret' = IF s.err = nil THEN cret ELSE ApiResult(WithStack(s.err))
    /\ UNCHANGED <<corig, cans>>
    /\ UNCHANGED tokenVars
    /\ UNCHANGED hookVars

\* hc.Do sends the header and what the body stream yields, and gets the
\* answer of the remote service or fails
RoundTrip ==
    /\ cpc = "signed"
    /\ \E a \in Answers :
          cans' = [sentAuth |-> creq.auth, sentBody |-> Yield(creq.body),
                   err |-> a.err, status |-> a.status, body |-> a.body,
                   bodyErr |-> a.bodyErr]
    /\ creq' = [creq EXCEPT !.body = Drained(creq.body)]
    /\ cpc' = "answered"
    /\ UNCHANGED <<corig, csig, cret>>
    /\ UNCHANGED tokenVars
    /\ UNCHANGED hookVars

\* Client.do checks the status and decodes the answer; the API method
\* returns
Finish ==
    /\ cpc = "answered"
    /\ cret' = ApiResult(DoResponse(creq.expected, HasDst(creq.caller), cans))
    /\ cpc' = "returned"
    /\ UNCHANGED <<creq, corig, csig, cans>>
    /\ UNCHANGED tokenVars
    /\ UNCHANGED hookVars

\* the caller has the result; the client is ready for the next call
Release ==
    /\ cpc = "returned"
    /\ cpc' = "idle"
    /\ creq' = NoOutbound
    /\ corig' = NoOutbound
    /\ csig' = NoSig
    /\ cans' = NoAnswer
    /\ cret' = nil
    /\ UNCHANGED tokenVars
    /\ UNCHANGED hookVars

ClientNext == NewRequest \/ SignRequest \/ RoundTrip \/ Finish \/ Release

ClientSpec == ClientInit /\ [][ClientNext]_vars

\* -------------------------------------------------- claims on the token
\* |now - t0| in ticks for the last Verify
AbsDiff(a, b) == IF a >= b THEN a - b ELSE b - a

\* the last operation was Verify(secret, content, ...) on a token that Sign
\* signed with that same secret and content and that never went through
\* Pack and Unpack
VerifiedOwnSignature ==
    /\ stage = "verified"
    /\ unp.err = "none"
    /\ prov.signed
    /\ ver.secret = prov.secret
    /\ ver.content = prov.content

\* C5 as stated: for all secrets, bodies and timestamps and any
\* maxSkew >= 0, Verify accepts a token signed by Sign(secret, body).
C5_SignedTokenAcceptedForAnySkew ==
    (VerifiedOwnSignature /\ ~prov.tampered /\ ver.skew >= 0)
        => ver.err = "nil"

\* C5 amended: a token signed by Sign(secret, body) always passes the
\* signature check of Verify(secret, body, maxSkew) (the error is never
\* "illegal signature"), and it is accepted whenever its timestamp lies
\* within maxSkew of the clock.
C5_SignedTokenPassesSignatureCheck ==
    (VerifiedOwnSignature /\ ~prov.tampered /\ ver.skew >= 0)
        => /\ ver.err # "illegal signature"
           /\ AbsDiff(ver.now, Instant(tok.Timestamp)) <= ver.skew
                 => ver.err = "nil"

C5_Witness ==
    /\ VerifiedOwnSignature /\ ~prov.tampered
    /\ ver.err = "nil"
    /\ ver.skew = 0
    /\ tok.Timestamp.off # 0

\* C6: a validly signed token whose signature bytes were changed (content
\* or length) fails Verify with "illegal signature", whether its timestamp
\* is inside or outside the skew window.
C6_ChangedSignatureIsIllegalSignature ==
    (VerifiedOwnSignature /\ prov.tampered) => ver.err = "illegal signature"

C6_Witness ==
    /\ VerifiedOwnSignature /\ prov.tampered
    /\ Len(tok.Signature) = sha256Size
    /\ AbsDiff(ver.now, Instant(tok.Timestamp)) > ver.skew
    /\ ver.err = "illegal signature"

\* C7: for a validly signed token with timestamp t0 and window w, Verify
\* fails with "illegal timestamp" whenever |now - t0| > w, in the past and
\* in the future direction, and succeeds when |now - t0| = w.
C7_WindowInclusiveAtBothEnds ==
    (VerifiedOwnSignature /\ ~prov.tampered)
        => LET d == AbsDiff(ver.now, Instant(tok.Timestamp))
           IN  /\ d > ver.skew => ver.err = "illegal timestamp"
               /\ d = ver.skew => ver.err = "nil"

C7_Witness ==
    /\ VerifiedOwnSignature /\ ~prov.tampered
    /\ ver.skew > 0
    /\ Instant(tok.Timestamp) - ver.now = ver.skew
    /\ ver.err = "nil"

\* the last operation was Unpack of exactly what Pack returned
UnpackedWhatPackReturned == stage = "unpacked" /\ forges = {}

\* C8 as stated: for every token, sub-second and non-UTC timestamps and any
\* signature bytes included, Unpack(Pack(t)) succeeds and equals t
\* field for field.
C8_RoundTripOfEveryToken ==
    UnpackedWhatPackReturned => (unp.err = "nil" /\ tok = orig)

\* C8 amended: for every token whose timestamp has no sub-second part and a
\* zone offset of whole minutes, and whose packed form is at most
\* maxPackedLen characters, Unpack(Pack(t)) succeeds and equals t field for
\* field (key identifier, instant and offset, signature bytes).
C8_RoundTripOfWholeSecondToken ==
    (/\ UnpackedWhatPackReturned
     /\ orig.Timestamp.frac = 0
     /\ orig.Timestamp.off % 60 = 0
     /\ PackedLen(wire) <= maxPackedLen)
        => (unp.err = "nil" /\ tok = orig)

C8_Witness ==
    /\ UnpackedWhatPackReturned
    /\ unp.before = ZeroToken
    /\ orig.Timestamp.frac = 0
    /\ orig.Timestamp.off = -18000
    /\ Len(orig.Signature) = sha256Size
    /\ unp.err = "nil"
    /\ tok = orig

\* C9 as stated: Unpack of a packed token whose algorithm tag is not
\* exactly HMAC-SHA256 always fails with "unsupported signing algorithm".
C9_AnyOtherTagIsUnsupportedAlgorithm ==
    (stage = "unpacked" /\ wire.algo # AlgoTag)
        => unp.err = "unsupported signing algorithm"

\* C9 amended: Unpack never succeeds for a packed token whose algorithm tag
\* is not hmac-sha256 after trimming white space and lowering the case; the
\* error is "unsupported signing algorithm" when the string is within the
\* length limit, is base64 of JSON and its key identifier and timestamp
\* parse, whatever its signature text is.
C9_UnrecognizedTagNeverUnpacks ==
    (stage = "unpacked" /\ forges \cap {"algoOther", "algoEmpty"} # {})
        => /\ unp.err # "nil"
           /\ tok = unp.before
           /\ forges \cap {"keyBad", "tsBad", "notBase64", "notJSON", "oversize",
                          "padOver", "rawMax", "rawOver"} = {}
                 => unp.err = "unsupported signing algorithm"

C9_Witness ==
    /\ stage = "unpacked"
    /\ forges = {"algoOther", "sigBadChar"}
    /\ unp.err = "unsupported signing algorithm"

\* ------------------------------------------------ claims on the handler
\* the handler has finished with the request, by returning or by a panic
Ended == pc \in {"done", "panicked"}

AllBlank(s) == \A i \in 1..Len(s) : s[i] = Space

\* the Authorization value h is "Bearer <token>": the scheme in any letter
\* case, blanks around it, one packed string and nothing else
BearerSyntax(h) ==
    LET p == TrimLeft(h.pre)
    IN  /\ h.tok # <<>>
        /\ Len(p) >= 7
        /\ ToLower(SubSeq(p, 1, 6)) = ToLower(Bearer)
        /\ AllBlank(SubSeq(p, 7, Len(p)))
        /\ AllBlank(h.post)

\* the clock was within w of instant t0 from the request's arrival on
FreshThroughout(t0, w) ==
    /\ AbsDiff(arrived, t0) <= w
    /\ AbsDiff(now, t0) <= w

\* the request carries, in one Bearer header, what Pack returned for a
\* token of key identifier id that Sign signed with the client's secret
\* over the request's body; the body arrives, and the token's time, which
\* the packed string carries to the second, stays within the client's window
SignedRequestFrom(id) ==
    /\ Len(req.auth) = 1
    /\ BearerSyntax(req.auth[1])
    /\ \E ts \in SenderTimes :
          /\ req.auth[1].tok[1] =
                Pack(Sign([APIKeyID |-> id, Timestamp |-> ts, Signature |-> <<>>],
                          Client.keySec, req.body))
          /\ FreshThroughout(ts.sec * TicksPerSec, Client.maxTimeDiff)
    /\ ~req.readErr

\* C1: the business callback is invoked at most once per request, and never
\* unless exactly one Authorization header was present, it had Bearer
\* syntax with a token, the token unpacked, Verify succeeded with the
\* client's secret over the request body, the token's key identifier is
\* the client's, and the body parsed as a Transaction.
C1_CallbackOnlyAfterFullVerification ==
    /\ calls.n <= 1
    /\ calls.n > 0 =>
          /\ Len(req.auth) = 1
          /\ BearerSyntax(req.auth[1])
          /\ LET u == Unpack(ZeroToken, req.auth[1].tok[1])
             IN  /\ u.err = "nil"
                 /\ \E reading \in arrived..now :
                       Verify(u.token, Client.keySec, req.body,
                              Client.maxTimeDiff, reading) = "nil"
                 /\ u.token.APIKeyID = Client.keyID
          /\ ~req.readErr
          /\ ~UnmarshalTransaction(req.body).err
          /\ calls.trx = UnmarshalTransaction(req.body).trx

C1_Witness ==
    /\ pc = "done"
    /\ calls.n = 1
    /\ calls.trx = "trx1"
    /\ req.body.pad > 0

\* C2: for a request with a correctly signed payload, the client's key
\* identifier in the token and a timestamp within the window, the handler
\* invokes the callback exactly once with the decoded payload, and answers
\* 202 when the callback succeeds and 500 when it returns an error.
C2_SignedRequestIsHandedToCallback ==
    (/\ Ended
     /\ SignedRequestFrom(Client.keyID)
     /\ ~UnmarshalTransaction(req.body).err)
        => /\ pc = "done"
           /\ calls.n = 1
           /\ calls.trx = UnmarshalTransaction(req.body).trx
           /\ resp.status = IF calls.failed THEN StatusInternalServerError
                            ELSE StatusAccepted

C2_Witness ==
    /\ pc = "done"
    /\ SignedRequestFrom(Client.keyID)
    /\ req.auth[1].pre # Bearer \o <<Space>>
    /\ calls.n = 1
    /\ ~calls.failed
    /\ resp.status = StatusAccepted

\* C3: for a request whose token is correctly signed under the client's
\* secret and fresh, but carries a foreign key identifier, the handler
\* completes with a 403 response and does not invoke the callback.
C3_ForeignSignerIsAnswered403 ==
    (Ended /\ SignedRequestFrom("k2"))
        => /\ pc = "done"
           /\ resp.status = StatusForbidden
           /\ resp.text # ""
           /\ calls.n = 0

\* C4: every outcome of the handler writes exactly one status code and a
\* non-empty plain-text explanation; no request ends with a status but no
\* body, or with no response.
C4_EveryOutcomeHasStatusAndText ==
    Ended => /\ resp.writeHeaders = 1
             /\ resp.status # 0
             /\ resp.contentType = "text/plain"
             /\ resp.text # ""

\* C10: the number of body bytes the handler reads into memory never
\* exceeds a fixed maximum, whatever the length of the body.
C10_BodyReadIsBounded == payload.read <= maxReadBytes

\* packed strings of the requests drawn that Unpack rejects, by alteration
BadWireKinds == {"algoOther", "oversize", "sigOdd"}

UnpackErrorOf(kind) ==
    CASE kind = "algoOther" -> "unsupported signing algorithm"
      [] kind = "oversize" -> "bearer token string is too long"
      [] OTHER -> "unable to parse the signature value"

\* the handler is past the header gates of the request at hand
PastHeaderGates == pc \in {"read", "verify", "signer", "parse", "callback", "done", "panicked"}

\* the request stopped at a header gate: the handler returned without
\* reading a byte of the body and without a call of the callback
StoppedAtHeaders(status) ==
    /\ pc = "done"
    /\ resp.status = status
    /\ resp.writeHeaders = 1
    /\ resp.text # ""
    /\ payload.read = 0
    /\ calls.n = 0

\* C11: the header gates stop the request in order, before the body is read
\* and before the callback: no Authorization header gives 401, more than
\* one gives 400, a single header that is not "Bearer <token>" (scheme in
\* any letter case) or has no token gives 400, and a token that fails
\* Unpack gives 400 with the failure's detail in the body.
C11_HeaderGatesShortCircuit ==
    PastHeaderGates =>
        /\ Len(req.auth) = 0 =>
              /\ StoppedAtHeaders(StatusUnauthorized)
              /\ resp.text = "Missing Authorization header."
        /\ Len(req.auth) > 1 =>
              /\ StoppedAtHeaders(StatusBadRequest)
              /\ resp.text = "Multiple Authorization header."
        /\ (Len(req.auth) = 1 /\ ~BearerSyntax(req.auth[1])) =>
              StoppedAtHeaders(StatusBadRequest)
        /\ \A k \in BadWireKinds :
              (/\ Len(req.auth) = 1
               /\ BearerSyntax(req.auth[1])
               /\ req.auth[1].tok[1] = Forged(GoodWire, k)) =>
                  /\ StoppedAtHeaders(StatusBadRequest)
                  /\ resp.text = "Invalid bearer token: %s"
                  /\ resp.detail = UnpackErrorOf(k)

C11_Witness ==
    /\ pc = "done"
    /\ Len(req.auth) = 1
    /\ BearerSyntax(req.auth[1])
    /\ req.auth[1].tok[1] = Forged(GoodWire, "algoOther")
    /\ resp.status = StatusBadRequest
    /\ resp.detail = "unsupported signing algorithm"

\* C14: Unpack of a packed string longer than maxPackedLen fails with the
\* too-long error before any base64 or JSON decoding (also when the string
\* is no base64 or has other faults), and a string of exactly maxPackedLen
\* characters passes the length check.
C14_LengthCheckedBeforeDecoding ==
    stage = "unpacked" =>
        /\ PackedLen(wire) > maxPackedLen
              <=> unp.err = "bearer token string is too long"
        /\ forges \cap {"oversize", "padOver", "rawOver"} # {}
              => unp.err = "bearer token string is too long"
        /\ "padMax" \in forges
              => unp.err \in {"nil", "unsupported signing algorithm"}
        /\ "rawMax" \in forges => unp.err = "unable to parse the bearer token"

C14_Witness ==
    /\ stage = "unpacked"
    /\ forges = {"padMax"}
    /\ PackedLen(wire) = maxPackedLen
    /\ unp.err = "nil"

C14_WitnessOver ==
    /\ stage = "unpacked"
    /\ forges = {"rawOver"}
    /\ PackedLen(wire) = maxPackedLen + 1
    /\ unp.err = "bearer token string is too long"

\* the token was signed by Sign, packed, unpacked from exactly that string
\* and then verified with the secret and content it was signed with
SignedPackedUnpackedVerified ==
    /\ stage = "verified"
    /\ unp.err = "nil"
    /\ forges = {}
    /\ prov.signed /\ ~prov.tampered
    /\ ver.secret = prov.secret
    /\ ver.content = prov.content
    /\ orig.Timestamp.off % 60 = 0

\* C15 as stated: a token signed at a clock reading with a sub-second part
\* and a local zone, packed, unpacked and verified with the same secret and
\* body at a clock within maxSkew of the signing time is accepted.
C15_AcceptedWithinSkewOfSigningTime ==
    (/\ SignedPackedUnpackedVerified
     /\ AbsDiff(ver.now, Instant(orig.Timestamp)) <= ver.skew)
        => ver.err = "nil"

\* C15 amended: for a zone offset of whole minutes the loss of the
\* sub-second part and of the zone never changes the signed content: Verify
\* on the unpacked token never fails with "illegal signature". It accepts
\* exactly when the clock is within maxSkew of the signing time truncated
\* to the second.
C15_AcceptedWithinSkewOfTruncatedTime ==
    SignedPackedUnpackedVerified
        => /\ ver.err # "illegal signature"
           /\ tok.Signature = orig.Signature
           /\ ver.err = "nil"
                 <=> AbsDiff(ver.now, orig.Timestamp.sec * TicksPerSec) <= ver.skew

C15_Witness ==
    /\ SignedPackedUnpackedVerified
    /\ orig.Timestamp.frac # 0
    /\ orig.Timestamp.off # 0
    /\ ver.err = "nil"

\* C16: whenever Unpack returns an error it leaves the receiver's
\* APIKeyID, Timestamp and Signature as they were, and Verify never
\* modifies the token.
C16_UnpackAllOrNothing ==
    [][/\ (stage' = "unpacked" /\ unp'.err # "nil") =>
              (tok' = unp'.before /\ unp'.before \in {tok, ZeroToken})
       /\ stage' = "verified" => tok' = tok]_vars

C16_Witness ==
    /\ stage = "unpacked"
    /\ forges = {"sigBadChar"}
    /\ unp.err = "unable to parse the signature value"
    /\ unp.before = ZeroToken
    /\ tok = ZeroToken

\* C12: after Client.sign has returned nil for an outbound request, with or
\* without a body, the request carries exactly one Authorization value,
\* Bearer and the packed token, whatever values it carried before; the
\* packed signature is the MAC over the bytes the body stream yields from
\* then on (no bytes when there is no body), these are the bytes the stream
\* would have yielded before signing, and they are what the transport sends.
C12_SignSetsOneBearerHeaderAndKeepsBody ==
    /\ cpc = "signed" =>
          LET g == HeaderGates(creq.auth)
          IN  /\ Len(creq.auth) = 1
              /\ BearerSyntax(creq.auth[1])
              /\ creq.auth[1] = BearerValue(Pack(csig.token))
              /\ g.pass
              /\ g.token.APIKeyID = Client.keyID
              /\ g.token.Signature = sign(csig.token, Client.keySec, Yield(creq.body))
              /\ Yield(creq.body) = Yield(corig.body)
              /\ corig.body.kind \in {"nil", "http.NoBody"}
                    => /\ creq.body = corig.body
                       /\ g.token.Signature = sign(csig.token, Client.keySec, NoBody)
    /\ cpc = "answered" =>
          /\ cans.sentAuth = <<BearerValue(Pack(csig.token))>>
          /\ cans.sentBody = Yield(corig.body)
          /\ csig.token.Signature = sign(csig.token, Client.keySec, cans.sentBody)

C12_Witness ==
    /\ cpc = "signed"
    /\ Len(corig.auth) = 2
    /\ corig.body.kind = "reader"
    /\ Yield(corig.body) = [doc |-> "trx1", pad |-> 0]
    /\ Yield(creq.body) = [doc |-> "trx1", pad |-> 0]
    /\ creq.auth = <<BearerValue(Pack(csig.token))>>
    /\ csig.token.Timestamp.frac # 0

\* the remote service answered a MakePayment call with a status other than
\* 202 and a JSON error body with one of the payment error codes
PaymentRefused ==
    /\ cpc = "returned"
    /\ creq.caller = "MakePayment"
    /\ csig.err = nil
    /\ ~cans.err /\ ~cans.bodyErr
    /\ cans.status # StatusAccepted
    /\ cans.body.json
    /\ cans.body.code \in PaymentCodes

\* C13: when the remote service answers MakePayment with an unexpected
\* status and an error body whose code is one of the payment error codes,
\* the returned error matches the sentinel of that code under errors.Is.
C13_PaymentErrorMatchesSentinel ==
    PaymentRefused => ErrorsIs(cret, SentinelOf(cans.body.code))

\* what MakePayment returns instead: the text error of Client.do under one
\* stack, which holds no sentinel and which wrapErr would hand back as is
ReturnedErrorHoldsNoSentinel ==
    PaymentRefused =>
        /\ cret = WithStack(UnexpectedResponse(cans.status, cans.body))
        /\ \A code \in PaymentCodes : ~ErrorsIs(cret, SentinelOf(code))
        /\ wrapErr(cret) = cret

PaymentRefusedReached == ~PaymentRefused

====
